---- MODULE Spec2Model ----
(***************************************************************************)
(* A model of toil's LSF helper (src/toil/batchSystems/lsfHelper.py) and   *)
(* of the job-store deletion tool (src/toil/utils/toilClean.py).           *)
(*                                                                         *)
(* Text.  A Python string is a sequence of atoms.  An atom is one of the   *)
(* characters the code looks at ("=", "#", " ", "\n") or a word: a         *)
(* non-empty run of characters that contains none of them.  split, strip,  *)
(* startswith and upper are computed on these sequences.                   *)
(*                                                                         *)
(* Values.  A Python value is a record tagged by its type (field t).       *)
(* Integers are unbounded in Python; int results are kept as two limbs     *)
(* <<hi, lo>> of base 1024^2, value hi * 1024^2 + lo.                      *)
(***************************************************************************)
EXTENDS Integers, Sequences, FiniteSets, TLC

VARIABLES
    bparams,    \* outcome of running `bparams -a`
    lsadmin,    \* outcome of running `lsadmin showconf lim`
    environ,    \* os.environ restricted to LSF_CONFDIR and LSF_ENVDIR
    fs,         \* the directory trees the two variables can point to
    pc,         \* "call" before the call, then where the call is or how it ended
    op,         \* the call: its name and arguments
    ret,        \* how the call ended: the value returned or the error raised
    exc,        \* toilClean.main: the exception propagating out of main
    jobStore,   \* toilClean.main: the local variable jobStore
    log,        \* toilClean.main: the records written to the logger
    ext         \* toilClean.main: what Toil.getJobStore and destroy do

vars == <<bparams, lsadmin, environ, fs, pc, op, ret, exc, jobStore, log, ext>>

lsfEnv == <<bparams, lsadmin, environ, fs>>
cleanVars == <<jobStore, log, ext, exc>>

-----------------------------------------------------------------------------
(* Bounds of the model. *)

\* Longest free-form line handed to the tokenizer.
MaxLen == 4
\* Longest stream of catalogue lines handed to the tokenizer.
MaxLines == 4
\* Largest base-1024 digit offset of the quantities handed to convert_mb.
MaxDigit == 1
\* Largest small memory request, in gigabytes, handed to the memory parsers.
MaxGB == 2

-----------------------------------------------------------------------------
(* Python values. *)

None == [t |-> "None"]
PyStr(s) == [t |-> "str", v |-> s]
PyBool(b) == [t |-> "bool", v |-> b]
PyInt(n) == [t |-> "int", v |-> n]
EmptyList == [t |-> "list", v |-> <<>>]
PyPath(p) == [t |-> "path", v |-> p]
NoValue == [t |-> "unset"]

\* Python truth value of an object, as `if value:` takes it.
Truthy(x) ==
    CASE x.t = "None" -> FALSE
      [] x.t = "str"  -> x.v # <<>>
      [] x.t = "list" -> x.v # <<>>
      [] x.t = "bool" -> x.v
      [] OTHER        -> TRUE

\* How a call ends: it returns a value or an exception leaves it.
\* `consulted` lists the probes the call ran, in order.
Returned(x, c) == [raised |-> FALSE, val |-> x, err |-> "", consulted |-> c]
Raised(e, c) == [raised |-> TRUE, val |-> NoValue, err |-> e, consulted |-> c]

-----------------------------------------------------------------------------
(* Strings. *)

Whitespace == {" ", "\n"}

RECURSIVE LStrip(_)
LStrip(s) ==
    IF s # <<>> /\ Head(s) \in Whitespace THEN LStrip(Tail(s)) ELSE s

RECURSIVE RStrip(_)
RStrip(s) ==
    IF s # <<>> /\ s[Len(s)] \in Whitespace
    THEN RStrip(SubSeq(s, 1, Len(s) - 1))
    ELSE s

\* str.strip()
Strip(s) == RStrip(LStrip(s))

\* str.startswith(c) for a one-character c
StartsWith(s, c) == s # <<>> /\ Head(s) = c

RECURSIVE SplitFrom(_, _, _)
SplitFrom(s, sep, cur) ==
    IF s = <<>> THEN <<cur>>
    ELSE IF Head(s) = sep
         THEN <<cur>> \o SplitFrom(Tail(s), sep, <<>>)
         ELSE SplitFrom(Tail(s), sep, Append(cur, Head(s)))

RECURSIVE SplitFirstFrom(_, _, _)
SplitFirstFrom(s, sep, cur) ==
    IF s = <<>> THEN <<cur>>
    ELSE IF Head(s) = sep
         THEN <<cur, Tail(s)>>
         ELSE SplitFirstFrom(Tail(s), sep, Append(cur, Head(s)))

\* A split at the first occurrence of sep only: str.split(sep, 1).
SplitOnFirst(s, sep) == SplitFirstFrom(s, sep, <<>>)
\* str.split(sep): the pieces between every occurrence of sep.
Split(s, sep) == SplitFrom(s, sep, <<>>)

\* str.upper() on the words the model uses; an atom with no lower-case
\* letter is its own upper case.
UpperAtom(a) ==
    CASE a = "y"   -> "Y"
      [] a = "n"   -> "N"
      [] a = "mb"  -> "MB"
      [] a = "yes" -> "YES"
      [] OTHER     -> a

\* The value left as it is: the call to upper() forgotten.
UpperIdentity(s) == s
Upper(s) == [i \in 1..Len(s) |-> UpperAtom(s[i])]

\* Iterating over an open file: its lines, each with its line break.
RECURSIVE FileLinesFrom(_, _)
FileLinesFrom(s, cur) ==
    IF s = <<>> THEN (IF cur = <<>> THEN <<>> ELSE <<cur>>)
    ELSE IF Head(s) = "\n"
         THEN <<Append(cur, "\n")>> \o FileLinesFrom(Tail(s), <<>>)
         ELSE FileLinesFrom(Tail(s), Append(cur, Head(s)))

FileLines(s) == FileLinesFrom(s, <<>>)

-----------------------------------------------------------------------------
(* The key-value tokenizer. *)

\* tokenize_conf_stream: the (key, value) pairs of the lines, in line order.
RECURSIVE tokenize_conf_stream(_)
tokenize_conf_stream(conf_handle) ==
    IF conf_handle = <<>> THEN <<>>
    ELSE LET line == Head(conf_handle)
             rest == tokenize_conf_stream(Tail(conf_handle))
             tokens == Split(line, "=")
         IN  IF StartsWith(line, "#") THEN rest
             ELSE IF Len(tokens) # 2 THEN rest
             ELSE <<<<Strip(tokens[1]), Strip(tokens[2])>>>> \o rest

-----------------------------------------------------------------------------
(* Module constants of lsfHelper.py. *)

LSB_PARAMS_FILENAME == "lsb.params"
LSF_CONF_FILENAME == "lsf.conf"
LSF_CONF_ENV == <<"LSF_CONFDIR", "LSF_ENVDIR">>
DEFAULT_LSF_UNITS == <<"KB">>
DEFAULT_RESOURCE_UNITS == <<"MB">>

-----------------------------------------------------------------------------
(* The config-file probe. *)

\* find: the files below basedir whose name matches, in os.walk order.
\* A path is <<basedir, position in the walk>>.
find(basedir, string) ==
    LET tree == fs[basedir]
        RECURSIVE Walk(_)
        Walk(i) ==
            IF i > Len(tree) THEN <<>>
            ELSE IF tree[i].name = string
                 THEN <<PyPath(<<basedir, i>>)>> \o Walk(i + 1)
                 ELSE Walk(i + 1)
    IN  Walk(1)

\* find_first_match: the first match, or the empty list of matches.
find_first_match(basedir, string) ==
    LET matches == find(basedir, string)
    IN  IF matches # <<>> THEN matches[1] ELSE EmptyList

\* get_conf_file: None when the variable is unset or empty.
get_conf_file(filename, env) ==
    LET conf_path == environ[env]
    IN  IF ~Truthy(conf_path) THEN None
        ELSE find_first_match(conf_path.v[1], filename)

FileAt(path) == fs[path[1]][path[2]]

-----------------------------------------------------------------------------
(* The per-key scans of a tokenized stream. *)

\* The value of the first entry whose key is `key`, or None.
RECURSIVE FirstEntry(_, _)
FirstEntry(entries, key) ==
    IF entries = <<>> THEN None
    ELSE IF Head(entries)[1] = <<key>> THEN PyStr(Head(entries)[2])
         ELSE FirstEntry(Tail(entries), key)

UpperOf(x) == IF x.t = "str" THEN PyStr(Upper(x.v)) ELSE x

per_core_reserve_from_stream(stream) ==
    UpperOf(FirstEntry(tokenize_conf_stream(stream), "RESOURCE_RESERVE_PER_SLOT"))

get_lsf_units_from_stream(stream) ==
    FirstEntry(tokenize_conf_stream(stream), "LSF_UNIT_FOR_LIMITS")

parallel_sched_by_slot_from_stream(stream) ==
    UpperOf(FirstEntry(tokenize_conf_stream(stream), "PARALLEL_SCHED_BY_SLOT"))

\* Calling the function object fn on a stream.
Apply(fn, stream) ==
    CASE fn = "per_core_reserve_from_stream" ->
            per_core_reserve_from_stream(stream)
      [] fn = "get_lsf_units_from_stream" ->
            get_lsf_units_from_stream(stream)
      [] fn = "parallel_sched_by_slot_from_stream" ->
            parallel_sched_by_slot_from_stream(stream)

-----------------------------------------------------------------------------
(* The probes. *)

\* apply_conf_file: the first truthy value fn finds in the file of one of
\* the variables of LSF_CONF_ENV, else None.  open() is outside any try.
RECURSIVE apply_conf_file_from(_, _, _, _)
apply_conf_file_from(fn, conf_filename, i, seen) ==
    IF i > Len(LSF_CONF_ENV) THEN Returned(None, seen)
    ELSE LET env == LSF_CONF_ENV[i]
             conf_file == get_conf_file(conf_filename, env)
             seen2 == Append(seen, env)
         IN  IF ~Truthy(conf_file)
             THEN apply_conf_file_from(fn, conf_filename, i + 1, seen2)
             ELSE IF ~FileAt(conf_file.v).readable
             THEN Raised("IOError", seen2)
             ELSE LET value == Apply(fn, FileLines(FileAt(conf_file.v).text))
                  IN  IF Truthy(value) THEN Returned(value, seen2)
                      ELSE apply_conf_file_from(fn, conf_filename, i + 1, seen2)

\* The config-file probe left out.
apply_conf_file_skipped(fn, conf_filename) == Returned(None, <<>>)
apply_conf_file(fn, conf_filename) ==
    apply_conf_file_from(fn, conf_filename, 1, <<>>)

\* apply_bparams: None when the command cannot be run or exits abnormally.
\* check_output returns a str, as under the Python 2 this module ran on.
apply_bparams(fn) ==
    IF ~bparams.ok THEN None ELSE Apply(fn, Split(bparams.out, "\n"))

\* apply_lsadmin: None when the command cannot be run or exits abnormally.
apply_lsadmin(fn) ==
    IF ~lsadmin.ok THEN None ELSE Apply(fn, Split(lsadmin.out, "\n"))

-----------------------------------------------------------------------------
(* The config resolvers. *)

\* The test `if lsf_units:` / `if per_core:` on what a probe returned.
Answered(x) == Truthy(x)

\* The comparison `per_core == "Y"`.
IsY(x) == x.t = "str" /\ x.v = <<"Y">>

\* The two defaults the wrong way round.
DefaultUnitsSwapped(resource) ==
    IF resource THEN PyStr(DEFAULT_LSF_UNITS) ELSE PyStr(DEFAULT_RESOURCE_UNITS)
\* The fall-back of get_lsf_units: -R usage units are in MB, not KB.
DefaultUnits(resource) ==
    IF resource THEN PyStr(DEFAULT_RESOURCE_UNITS) ELSE PyStr(DEFAULT_LSF_UNITS)

\* get_lsf_units with lsadmin asked before bparams.
get_lsf_units_lsadmin_first(resource) ==
    LET fn == "get_lsf_units_from_stream"
        a == apply_lsadmin(fn)
        b == apply_bparams(fn)
        c == apply_conf_file(fn, LSF_CONF_FILENAME)
    IN  IF Answered(a) THEN Returned(a, <<"lsadmin">>)
        ELSE IF Answered(b) THEN Returned(b, <<"lsadmin", "bparams">>)
        ELSE IF c.raised THEN Raised(c.err, <<"lsadmin", "bparams">> \o c.consulted)
        ELSE IF Answered(c.val)
             THEN Returned(c.val, <<"lsadmin", "bparams">> \o c.consulted)
        ELSE Returned(DefaultUnits(resource),
                      <<"lsadmin", "bparams">> \o c.consulted)

\* get_lsf_units: bparams, then lsadmin, then the lsf.conf file.
get_lsf_units(resource) ==
    LET fn == "get_lsf_units_from_stream"
        a == apply_bparams(fn)
        b == apply_lsadmin(fn)
        c == apply_conf_file(fn, LSF_CONF_FILENAME)
    IN  IF Answered(a) THEN Returned(a, <<"bparams">>)
        ELSE IF Answered(b) THEN Returned(b, <<"bparams", "lsadmin">>)
        ELSE IF c.raised THEN Raised(c.err, <<"bparams", "lsadmin">> \o c.consulted)
        ELSE IF Answered(c.val)
             THEN Returned(c.val, <<"bparams", "lsadmin">> \o c.consulted)
        ELSE Returned(DefaultUnits(resource),
                      <<"bparams", "lsadmin">> \o c.consulted)

per_core_reservation ==
    LET fn == "per_core_reserve_from_stream"
        a == apply_bparams(fn)
        b == apply_lsadmin(fn)
        c == apply_conf_file(fn, LSB_PARAMS_FILENAME)
    IN  IF Answered(a)
        THEN (IF IsY(a) THEN Returned(PyBool(TRUE), <<"bparams">>)
              ELSE Returned(PyBool(FALSE), <<"bparams">>))
        ELSE IF Answered(b)
        THEN (IF IsY(b) THEN Returned(PyBool(TRUE), <<"bparams", "lsadmin">>)
              ELSE Returned(PyBool(FALSE), <<"bparams", "lsadmin">>))
        ELSE IF c.raised THEN Raised(c.err, <<"bparams", "lsadmin">> \o c.consulted)
        ELSE IF Answered(c.val) /\ IsY(c.val)
             THEN Returned(PyBool(TRUE), <<"bparams", "lsadmin">> \o c.consulted)
        ELSE Returned(PyBool(FALSE), <<"bparams", "lsadmin">> \o c.consulted)

parallel_sched_by_slot ==
    LET fn == "parallel_sched_by_slot_from_stream"
        a == apply_bparams(fn)
        b == apply_lsadmin(fn)
        c == apply_conf_file(fn, LSB_PARAMS_FILENAME)
    IN  IF Answered(a)
        THEN (IF IsY(a) THEN Returned(PyBool(TRUE), <<"bparams">>)
              ELSE Returned(PyBool(FALSE), <<"bparams">>))
        ELSE IF Answered(b)
        THEN (IF IsY(b) THEN Returned(PyBool(TRUE), <<"bparams", "lsadmin">>)
              ELSE Returned(PyBool(FALSE), <<"bparams", "lsadmin">>))
        ELSE IF c.raised THEN Raised(c.err, <<"bparams", "lsadmin">> \o c.consulted)
        ELSE IF Answered(c.val) /\ IsY(c.val)
             THEN Returned(PyBool(TRUE), <<"bparams", "lsadmin">> \o c.consulted)
        ELSE Returned(PyBool(FALSE), <<"bparams", "lsadmin">> \o c.consulted)

-----------------------------------------------------------------------------
(* The memory converter and the memory parsers. *)

Base == 1024

RECURSIVE Pow(_)
Pow(k) == IF k = 0 THEN 1 ELSE Base * Pow(k - 1)

\* One limb of an int result.
Limb == Pow(2)

\* n as an int result.
BigOf(n) == <<n \div Limb, n % Limb>>

\* int(n / 1024^(-k)) for k in 0..2: the product n * 1024^k, which is exact.
MulPow(n, k) ==
    LET m == Pow(k)
        q == Limb \div m
    IN  <<n \div q, (n % q) * m>>

\* int(n / 1024^k) for k in 0..2: the quotient, truncated.
DivPow(n, k) == BigOf(n \div Pow(k))

UNITS == [B |-> -2, KB |-> -1, MB |-> 0, GB |-> 1, TB |-> 2]

InUnits(unit) ==
    unit.t = "str" /\ Len(unit.v) = 1 /\ unit.v[1] \in DOMAIN UNITS

\* convert_mb with the exponent's sign inverted: kb read as kilobytes.
convert_mb_inverted(kb, unit) ==
    IF ~InUnits(unit) THEN Raised("AssertionError", <<>>)
    ELSE LET e == UNITS[unit.v[1]]
         IN  IF e < 0 THEN Returned(PyInt(DivPow(kb, -e)), <<>>)
             ELSE Returned(PyInt(MulPow(kb, e)), <<>>)

\* convert_mb with an unknown unit taken as MB.
convert_mb_defaulting(kb, unit) ==
    LET e == IF InUnits(unit) THEN UNITS[unit.v[1]] ELSE 0
    IN  IF e > 0 THEN Returned(PyInt(DivPow(kb, e)), <<>>)
        ELSE Returned(PyInt(MulPow(kb, -e)), <<>>)

\* convert_mb: kb is a quantity in megabytes, whatever its name says.  The
\* float division by a power of two and int() are exact below 2^53; the
\* failed assert raises before anything is computed.
convert_mb(kb, unit) ==
    IF ~InUnits(unit) THEN Raised("AssertionError", <<>>)
    ELSE LET e == UNITS[unit.v[1]]
         IN  IF e > 0 THEN Returned(PyInt(DivPow(kb, e)), <<>>)
             ELSE Returned(PyInt(MulPow(kb, -e)), <<>>)

\* parse_memory without the factor 1024.
parse_memory_unscaled(mem, resource) ==
    LET lsf_unit == get_lsf_units(resource)
    IN  IF lsf_unit.raised THEN lsf_unit
        ELSE LET r == convert_mb(mem, lsf_unit.val)
             IN  [r EXCEPT !.consulted = lsf_unit.consulted]

\* parse_memory: the request is in gigabytes.
parse_memory(mem, resource) ==
    LET lsf_unit == get_lsf_units(resource)
    IN  IF lsf_unit.raised THEN lsf_unit
        ELSE LET r == convert_mb(mem * 1024, lsf_unit.val)
             IN  [r EXCEPT !.consulted = lsf_unit.consulted]

parse_memory_resource(mem) == parse_memory(mem, TRUE)

parse_memory_limit(mem) == parse_memory(mem, FALSE)

-----------------------------------------------------------------------------
(* The inputs: what the cluster's tools print and its files hold. *)

\* The lines about one key, in one of six shapes; a, b, c are values.
KeyText(K, a, b, c, shape) ==
    CASE shape = 1 ->   \* no entry: a comment, another key, malformed lines
            <<"#", K, "=", a, "\n", "OTHER_KEY", "=", a, "\n",
              "bad", " ", "line", "\n", K, "=", a, "=", b, "\n">>
      [] shape = 2 ->   \* the key with an empty value
            <<K, "=", "\n">>
      [] shape = 3 ->   \* value a, blanks around the key and the value
            <<" ", K, " ", "=", " ", a, " ", "\n">>
      [] shape = 4 ->   \* the key twice: b, then a
            <<K, "=", b, "\n", K, "=", a, "\n">>
      [] shape = 5 ->   \* value c
            <<K, "=", c, "\n">>
      [] shape = 6 ->   \* the key twice: empty, then a
            <<K, "=", "\n", K, "=", a, "\n">>

Shapes == 1..6

\* A text with the three keys, each in the same shape.
ConfText(shape) ==
    KeyText("LSF_UNIT_FOR_LIMITS", "GB", "KB", "mb", shape)
    \o KeyText("RESOURCE_RESERVE_PER_SLOT", "y", "Y", "N", shape)
    \o KeyText("PARALLEL_SCHED_BY_SLOT", "Y", "yes", "y", shape)

\* A text that sets the unit alone.
UnitText(u) == <<"LSF_UNIT_FOR_LIMITS", "=", u, "\n">>

Failed == [ok |-> FALSE, out |-> <<>>]
Printed(text) == [ok |-> TRUE, out |-> text]

File(name, readable, text) ==
    [name |-> name, readable |-> readable, text |-> text]

BothFiles(readable, text) ==
    <<File(LSF_CONF_FILENAME, readable, text),
      File(LSB_PARAMS_FILENAME, readable, text)>>

\* The directory trees of the resolver runs, as os.walk lists their files.
Trees ==
    { <<>>,
      <<File(LSF_CONF_FILENAME, TRUE, ConfText(3))>>,
      <<File(LSB_PARAMS_FILENAME, TRUE, ConfText(3))>>,
      BothFiles(FALSE, <<>>),
      BothFiles(TRUE, ConfText(5)) \o BothFiles(TRUE, ConfText(3)) }
    \cup { BothFiles(TRUE, ConfText(shape)) : shape \in Shapes }

CONFDIR == "/confdir"
ENVDIR == "/envdir"

\* os.environ and the file system: a variable is unset, or names its tree.
Environs(confTrees, envTrees) ==
    { [e |-> [LSF_CONFDIR |-> IF c.set THEN PyStr(<<CONFDIR>>) ELSE None,
              LSF_ENVDIR  |-> IF d.set THEN PyStr(<<ENVDIR>>) ELSE None],
       f |-> (CONFDIR :> c.tree) @@ (ENVDIR :> d.tree)] :
      c \in {[set |-> FALSE, tree |-> <<>>]}
            \cup {[set |-> TRUE, tree |-> t] : t \in confTrees},
      d \in {[set |-> FALSE, tree |-> <<>>]}
            \cup {[set |-> TRUE, tree |-> t] : t \in envTrees} }

CommandOutcomes == {Failed} \cup {Printed(ConfText(shape)) : shape \in Shapes}

ResolverOps ==
    { [name |-> "get_lsf_units", resource |-> r] : r \in BOOLEAN }
    \cup { [name |-> "per_core_reservation"],
           [name |-> "parallel_sched_by_slot"] }

\* The memory requests, in gigabytes.
MemValues == (0..MaxGB) \cup {1023, 1024, 1025}

MemoryOps ==
    { [name |-> n, mem |-> g] :
      n \in {"parse_memory_resource", "parse_memory_limit"}, g \in MemValues }

UnitWords == {"B", "KB", "MB", "GB", "TB", "mb"}

\* The quantities handed to convert_mb: base-1024 digits near 0 and 1023.
Digits == (0..MaxDigit) \cup {Base - 1 - d : d \in 0..MaxDigit}
ConvValues == { (a * Base + b) * Base + c : a, b, c \in Digits }

ConvertOps ==
    { [name |-> "convert_mb", kb |-> n, unit |-> PyStr(u)] :
      n \in ConvValues,
      u \in {<<w>> : w \in UnitWords \cup {"bogus"}} \cup {<<>>} }

\* The tokenizer's inputs: every line of at most MaxLen atoms alone, and
\* every stream of at most MaxLines of the catalogue's lines.
Atoms == {"#", "=", " ", "A", "1"}

RECURSIVE SeqsUpTo(_, _)
SeqsUpTo(S, n) ==
    IF n = 0 THEN {<<>>}
    ELSE LET shorter == SeqsUpTo(S, n - 1)
         IN  shorter \cup {Append(s, x) : s \in shorter, x \in S}

CatalogueLines ==
    { <<"#", " ", "comment", "\n">>,
      <<"A", "=", "1", "\n">>,
      <<"bad", " ", "line", "\n">>,
      <<"B", " ", "=", " ", "2", "\n">>,
      <<"C", "=", "3", "=", "4", "\n">> }

TokenizeOps ==
    { [name |-> "tokenize_conf_stream", conf_handle |-> h] :
      h \in {<<l>> : l \in SeqsUpTo(Atoms, MaxLen)}
            \cup SeqsUpTo(CatalogueLines, MaxLines) }

\* toilClean: the job-store locators, and what the two calls on the job
\* store can do: complete ("ok") or raise.
Locators == {"file:/tmp/js", "aws:us-west-2:js", "azure:acct:js",
             "google:proj:js", "bogus"}
Exceptions == {"RuntimeError", "IOError", "KeyboardInterrupt"}
CallOutcomes == {"ok"} \cup Exceptions

Unbound == [t |-> "unbound"]

-----------------------------------------------------------------------------
(* The initial states: one call about to be made, and the world it runs in. *)

QuietLsf ==
    /\ bparams = Failed
    /\ lsadmin = Failed
    /\ environ = [LSF_CONFDIR |-> None, LSF_ENVDIR |-> None]
    /\ fs = (CONFDIR :> <<>>) @@ (ENVDIR :> <<>>)

QuietClean ==
    /\ jobStore = Unbound
    /\ log = <<>>
    /\ exc = ""
    /\ ext = [getJobStore |-> "ok", destroy |-> "ok"]

InitResolver ==
    /\ op \in ResolverOps
    /\ bparams \in CommandOutcomes
    /\ lsadmin \in CommandOutcomes
    /\ \E w \in Environs(Trees, Trees) : environ = w.e /\ fs = w.f
    /\ pc = "call"
    /\ QuietClean

InitMemory ==
    /\ op \in MemoryOps
    /\ bparams \in {Failed, Printed(KeyText("LSF_UNIT_FOR_LIMITS", "", "", "", 2))}
                   \cup {Printed(UnitText(u)) : u \in UnitWords}
    /\ lsadmin \in {Failed, Printed(UnitText("TB")), Printed(UnitText("mb"))}
    /\ \E w \in Environs({<<File(LSF_CONF_FILENAME, TRUE, UnitText("B"))>>},
                         {<<File(LSF_CONF_FILENAME, TRUE, UnitText("GB"))>>}) :
           environ = w.e /\ fs = w.f
    /\ pc = "call"
    /\ QuietClean

InitConvert ==
    /\ op \in ConvertOps
    /\ QuietLsf
    /\ pc = "call"
    /\ QuietClean

InitTokenize ==
    /\ op \in TokenizeOps
    /\ QuietLsf
    /\ pc = "call"
    /\ QuietClean

InitClean ==
    /\ op \in {[name |-> "main", jobStore |-> l] : l \in Locators}
    /\ QuietLsf
    /\ pc = "getJobStore"
    /\ jobStore = Unbound
    /\ log = <<>>
    /\ exc = ""
    /\ ext \in [getJobStore : CallOutcomes, destroy : CallOutcomes]

Init ==
    /\ ret = NoValue
    /\ (InitResolver \/ InitMemory \/ InitConvert \/ InitTokenize \/ InitClean)

-----------------------------------------------------------------------------
(* The operations of lsfHelper.py. *)

Finish(outcome) ==
    /\ pc' = IF outcome.raised THEN "raised" ELSE "done"
    /\ ret' = outcome
    /\ UNCHANGED <<lsfEnv, op, cleanVars>>

GetLsfUnits ==
    /\ pc = "call" /\ op.name = "get_lsf_units"
    /\ Finish(get_lsf_units(op.resource))

PerCoreReservation ==
    /\ pc = "call" /\ op.name = "per_core_reservation"
    /\ Finish(per_core_reservation)

ParallelSchedBySlot ==
    /\ pc = "call" /\ op.name = "parallel_sched_by_slot"
    /\ Finish(parallel_sched_by_slot)

ParseMemoryResource ==
    /\ pc = "call" /\ op.name = "parse_memory_resource"
    /\ Finish(parse_memory_resource(op.mem))

ParseMemoryLimit ==
    /\ pc = "call" /\ op.name = "parse_memory_limit"
    /\ Finish(parse_memory_limit(op.mem))

ConvertMb ==
    /\ pc = "call" /\ op.name = "convert_mb"
    /\ Finish(convert_mb(op.kb, op.unit))

TokenizeConfStream ==
    /\ pc = "call" /\ op.name = "tokenize_conf_stream"
    /\ Finish(Returned([t |-> "list", v |-> tokenize_conf_stream(op.conf_handle)],
                       <<>>))

-----------------------------------------------------------------------------
(* toilClean.main, from the try statement on. *)

FailureMessage(js) == <<"Failed to delete the job store: ", js>>
SuccessMessage(js) == <<"Successfully deleted the job store: ", js>>

\* jobStore = Toil.getJobStore(config.jobStore)
MainGetJobStore ==
    /\ pc = "getJobStore"
    /\ IF ext.getJobStore = "ok"
       THEN /\ jobStore' = [t |-> "jobStore", v |-> op.jobStore]
            /\ pc' = "destroy"
            /\ exc' = exc
       ELSE /\ jobStore' = jobStore
            /\ pc' = "except"
            /\ exc' = ext.getJobStore
    /\ UNCHANGED <<lsfEnv, op, ret, log, ext>>

\* jobStore.destroy()
MainDestroy ==
    /\ pc = "destroy"
    /\ IF ext.destroy = "ok"
       THEN pc' = "logSuccess" /\ exc' = exc
       ELSE pc' = "except" /\ exc' = ext.destroy
    /\ UNCHANGED <<lsfEnv, op, ret, log, ext, jobStore>>

\* logger.info("Successfully deleted the job store: %s" % str(jobStore))
MainLogSuccess ==
    /\ pc = "logSuccess"
    /\ log' = Append(log, SuccessMessage(jobStore.v))
    /\ pc' = "done"
    /\ UNCHANGED <<lsfEnv, op, ret, ext, jobStore, exc>>

\* except: logger.info("Failed ... %s" % str(jobStore)); raise.
\* Reading jobStore before it was assigned raises UnboundLocalError, which
\* leaves the handler in place of the exception it was handling.
MainExcept ==
    /\ pc = "except"
    /\ IF jobStore = Unbound
       THEN log' = log /\ exc' = "UnboundLocalError"
       ELSE log' = Append(log, FailureMessage(jobStore.v)) /\ exc' = exc
    /\ pc' = "raised"
    /\ UNCHANGED <<lsfEnv, op, ret, ext, jobStore>>

-----------------------------------------------------------------------------

Next ==
    \/ GetLsfUnits
    \/ PerCoreReservation
    \/ ParallelSchedBySlot
    \/ ParseMemoryResource
    \/ ParseMemoryLimit
    \/ ConvertMb
    \/ TokenizeConfStream
    \/ MainGetJobStore
    \/ MainDestroy
    \/ MainLogSuccess
    \/ MainExcept

Spec == Init /\ [][Next]_vars

-----------------------------------------------------------------------------
(* What the claims speak of, stated from the inputs alone. *)

IsResolver == op.name \in {"get_lsf_units", "per_core_reservation",
                           "parallel_sched_by_slot"}
IsBoolean == op.name \in {"per_core_reservation", "parallel_sched_by_slot"}
IsParser == op.name \in {"parse_memory_resource", "parse_memory_limit"}
Ended == pc \in {"done", "raised"}

\* The key and the file a call looks for.
TargetKey ==
    CASE op.name = "per_core_reservation"   -> "RESOURCE_RESERVE_PER_SLOT"
      [] op.name = "parallel_sched_by_slot" -> "PARALLEL_SCHED_BY_SLOT"
      [] OTHER                              -> "LSF_UNIT_FOR_LIMITS"
TargetFile == IF IsBoolean THEN "lsb.params" ELSE "lsf.conf"

ProbeOrder == <<"bparams", "lsadmin", "LSF_CONFDIR", "LSF_ENVDIR">>

\* The file a config-file probe reaches: the first of the tree with the name.
TreeOf(var) == IF var = "LSF_CONFDIR" THEN fs["/confdir"] ELSE fs["/envdir"]
Found(var) ==
    /\ environ[var] # None
    /\ \E i \in 1..Len(TreeOf(var)) : TreeOf(var)[i].name = TargetFile
FoundFile(var) ==
    LET tree == TreeOf(var)
        i == CHOOSE i \in 1..Len(tree) :
                 /\ tree[i].name = TargetFile
                 /\ \A j \in 1..(i - 1) : tree[j].name # TargetFile
    IN  tree[i]

\* The text probe number p yields, when it yields one.
Available(p) ==
    CASE p = 1 -> bparams.ok
      [] p = 2 -> lsadmin.ok
      [] OTHER -> Found(ProbeOrder[p]) /\ FoundFile(ProbeOrder[p]).readable
Unreadable(p) ==
    p > 2 /\ Found(ProbeOrder[p]) /\ ~FoundFile(ProbeOrder[p]).readable
LinesOf(p) ==
    CASE p = 1 -> Split(bparams.out, "\n")
      [] p = 2 -> Split(lsadmin.out, "\n")
      [] OTHER -> FileLines(FoundFile(ProbeOrder[p]).text)

\* The first entry of probe p with the target key: its value, else None.
EntryOf(p) ==
    IF Available(p) THEN FirstEntry(tokenize_conf_stream(LinesOf(p)), TargetKey)
    ELSE None
HasKey(p) == EntryOf(p) # None
HasValue(p) == EntryOf(p) # None /\ EntryOf(p).v # <<>>

\* The first probe, in priority order, that satisfies P; 0 when none does.
FirstProbe(P(_)) ==
    IF \E p \in 1..4 : P(p)
    THEN CHOOSE p \in 1..4 : P(p) /\ \A q \in 1..(p - 1) : ~P(q)
    ELSE 0

\* What a value of the key means to the call.
YesWords == {<<"Y">>, <<"y">>}
Meaning(value) ==
    IF IsBoolean THEN PyBool(value \in YesWords) ELSE PyStr(value)
DefaultOf(o) ==
    CASE o.name = "get_lsf_units" /\ o.resource          -> PyStr(<<"MB">>)
      [] o.name = "parse_memory_resource"                -> PyStr(<<"MB">>)
      [] o.name \in {"get_lsf_units", "parse_memory_limit"} -> PyStr(<<"KB">>)
      [] OTHER                                           -> PyBool(FALSE)

\* A resolver's outcome when the probe that decides is the first to satisfy
\* Decides: its value, the default when no probe decides, and the I/O error
\* when the first probe to decide or to be unreadable is unreadable.
Stops(Decides(_), p) == Decides(p) \/ Unreadable(p)
OutcomeWhen(Decides(_)) ==
    LET Halt(p) == Stops(Decides, p)
        p == FirstProbe(Halt)
    IN  IF p = 0 THEN Returned(DefaultOf(op), ProbeOrder)
        ELSE IF Unreadable(p) THEN Raised("IOError", SubSeq(ProbeOrder, 1, p))
        ELSE Returned(Meaning(EntryOf(p).v), SubSeq(ProbeOrder, 1, p))

-----------------------------------------------------------------------------
(* C1 *)

\* The three probes of the claims: the two config-file variables are one.
Collapsed(c) == IF Len(c) <= 2 THEN c ELSE <<c[1], c[2], "config file">>
KeyedProbe == FirstProbe(HasKey)

\* C1 as stated: the probes are tried in the order bparams, lsadmin, config
\* file, and the first probe that succeeds and contains the target key
\* decides the result, whatever its value, the empty value included; no
\* later probe is consulted.  (The config-file probe is taken as a whole:
\* any of its files that holds the key may be the one that decides.)
C1_FirstProbeWithKeyDecides ==
    (IsResolver /\ pc = "done" /\ KeyedProbe # 0) =>
        /\ IF KeyedProbe <= 2
           THEN ret.val = Meaning(EntryOf(KeyedProbe).v)
           ELSE ret.val \in {Meaning(EntryOf(p).v) : p \in {q \in 3..4 : HasKey(q)}}
        /\ Collapsed(ret.consulted) =
               Collapsed(SubSeq(ProbeOrder, 1, KeyedProbe))

\* C1 amended: the probes are tried in the order bparams, lsadmin,
\* LSF_CONFDIR file, LSF_ENVDIR file, and the first probe whose first entry
\* for the target key has a non-empty value decides the result; no later
\* probe is consulted.  A probe that gives the key an empty value is passed
\* over like one without the key.  A matching file that cannot be opened,
\* reached before any probe decides, ends the call with the I/O error.
C1_FirstProbeWithValueDecides ==
    (IsResolver /\ Ended) => ret = OutcomeWhen(HasValue)

\* bparams and lsadmin both give the key a value, the two differ, and the
\* call returned.
C1_Witness ==
    /\ IsResolver /\ pc = "done"
    /\ HasValue(1) /\ HasValue(2)
    /\ Meaning(EntryOf(1).v) # Meaning(EntryOf(2).v)
    /\ ret.consulted = <<"bparams">>

-----------------------------------------------------------------------------
(* C2 *)

BothCommandsFail == ~bparams.ok /\ ~lsadmin.ok
FileProbes == 3..4

\* C2 as stated: with both command probes unavailable and a config file
\* found that contains the target key, the resolver returns the value
\* derived from that file, never the default, for every value of the key.
C2_FileWithKeyDecides ==
    (IsResolver /\ pc = "done" /\ BothCommandsFail /\ KeyedProbe # 0) =>
        ret.val \in {Meaning(EntryOf(p).v) : p \in {q \in FileProbes : HasKey(q)}}

\* C2 amended: with both command probes unavailable, the resolver returns
\* the value derived from the first file, LSF_CONFDIR's before LSF_ENVDIR's,
\* whose first entry for the target key has a non-empty value, provided no
\* matching file consulted up to it is unreadable; a file that gives the key
\* an empty value is passed over, and when no file is left to answer the
\* hard-coded default is returned.
C2_FileWithValueDecides ==
    (IsResolver /\ Ended /\ BothCommandsFail) =>
        LET p == FirstProbe(HasValue)
        IN  /\ (p # 0 /\ \A q \in 3..p : ~Unreadable(q)) =>
                   (pc = "done" /\ ret.val = Meaning(EntryOf(p).v))
            /\ (p = 0 /\ \A q \in FileProbes : ~Unreadable(q)) =>
                   (pc = "done" /\ ret.val = DefaultOf(op))

\* Both commands failed and the unit came from LSF_ENVDIR's lsf.conf.
C2_Witness ==
    /\ op.name = "get_lsf_units" /\ pc = "done" /\ BothCommandsFail
    /\ ~HasValue(3) /\ HasValue(4)
    /\ ret.val = PyStr(<<"GB">>)

-----------------------------------------------------------------------------
(* C3 *)

NoProbeHasKey == \A p \in 1..4 : ~HasKey(p)
NoProbeHasValue == \A p \in 1..4 : ~HasValue(p) /\ ~Unreadable(p)

\* C3 as stated: when every probe is unavailable or yields no entry with
\* the target key the defaults are returned ("MB" or "KB" by the resource
\* flag, False for the two booleans), and the resource flag influences
\* get_lsf_units in that case only.
C3_FlagCountsOnlyWithoutKey ==
    /\ (IsResolver /\ pc = "done" /\ NoProbeHasKey) => ret.val = DefaultOf(op)
    /\ (op.name = "get_lsf_units" /\ pc = "done" /\ ~NoProbeHasKey) =>
           get_lsf_units(TRUE).val = get_lsf_units(FALSE).val

\* C3 amended: when every probe is unavailable, yields no entry with the
\* target key or gives it an empty value, get_lsf_units returns "MB" with
\* resource=True and "KB" with resource=False, and the two booleans return
\* False; the resource flag influences get_lsf_units in that case only.
C3_FlagCountsOnlyWithoutValue ==
    /\ (IsResolver /\ Ended /\ NoProbeHasValue) =>
           (pc = "done" /\ ret.val = DefaultOf(op))
    /\ (op.name = "get_lsf_units" /\ Ended /\ NoProbeHasValue) =>
           /\ ret.val = PyStr(IF op.resource THEN <<"MB">> ELSE <<"KB">>)
           /\ get_lsf_units(TRUE).val # get_lsf_units(FALSE).val
    /\ (op.name = "get_lsf_units" /\ Ended /\ ~NoProbeHasValue) =>
           get_lsf_units(TRUE) = get_lsf_units(FALSE)

\* No probe answered and get_lsf_units(resource=True) returned "MB".
C3_Witness ==
    /\ op.name = "get_lsf_units" /\ op.resource /\ pc = "done"
    /\ NoProbeHasValue
    /\ ret.val = PyStr(<<"MB">>)

-----------------------------------------------------------------------------
(* C4 *)

\* C4 as stated: a boolean resolver returns True exactly when the value of
\* the key in the highest-priority source that contains the key is "Y" up
\* to case and surrounding blanks; any other value, the empty one included,
\* gives False whatever the lower-priority sources contain.
C4_HighestSourceWithKey ==
    (IsBoolean /\ pc = "done" /\ KeyedProbe # 0) =>
        IF KeyedProbe <= 2
        THEN ret.val = PyBool(EntryOf(KeyedProbe).v \in YesWords)
        ELSE ret.val \in {PyBool(EntryOf(p).v \in YesWords) :
                          p \in {q \in FileProbes : HasKey(q)}}

\* C4 amended: a boolean resolver returns True exactly when the value of
\* the key in the highest-priority source that gives the key a non-empty
\* value is "Y" up to case and surrounding blanks; any other non-empty
\* value gives False whatever the lower-priority sources contain, and an
\* empty value leaves the decision to the lower-priority sources.
C4_HighestSourceWithValue ==
    (IsBoolean /\ pc = "done") =>
        LET p == FirstProbe(HasValue)
        IN  ret.val = PyBool(p # 0 /\ EntryOf(p).v \in YesWords)

\* bparams says "y" with blanks around it, and the call returned True.
C4_Witness ==
    /\ op.name = "per_core_reservation" /\ pc = "done"
    /\ bparams.ok /\ EntryOf(1) = PyStr(<<"y">>)
    /\ bparams.out[1] = " "
    /\ ret.val = PyBool(TRUE)

-----------------------------------------------------------------------------
(* C9 *)

\* C9 as stated: whatever makes a probe unavailable (a command that fails,
\* a variable that is unset, a directory without the file, a found file
\* that cannot be opened), each resolver completes and returns a value.
C9_ResolversNeverRaise ==
    (IsResolver /\ Ended) => (pc = "done" /\ ~ret.raised)

-----------------------------------------------------------------------------
(* C6, C7, C8: the converter and the memory parsers *)

ValidUnitWords == {"B", "KB", "MB", "GB", "TB"}
IsValidUnit(u) == u.t = "str" /\ \E w \in ValidUnitWords : u.v = <<w>>

\* The exponent e(u) of the claims.
UnitExponent(w) ==
    CASE w = "B" -> -2 [] w = "KB" -> -1 [] w = "MB" -> 0
      [] w = "GB" -> 1 [] w = "TB" -> 2

\* r, an int result <<hi, lo>>, is floor(v / 1024^e): for e >= 0 by the
\* bounds r * 1024^e <= v < (r + 1) * 1024^e, for e < 0 by r being the
\* multiple of 1024^(-e) whose quotient by it is v.
IsFloorOfQuotient(r, v, e) ==
    /\ r[1] >= 0 /\ r[2] >= 0 /\ r[2] < Limb
    /\ r[1] <= v
    /\ IF e >= 0
       THEN /\ r[1] < Base
            /\ LET n == r[1] * Limb + r[2]
               IN  n * Pow(e) <= v /\ v < (n + 1) * Pow(e)
       ELSE LET m == Pow(-e)
            IN  /\ r[2] % m = 0
                /\ r[1] * (Limb \div m) + (r[2] \div m) = v

ResolvedUnit ==
    LET p == FirstProbe(HasValue)
    IN  IF p = 0 THEN DefaultOf(op) ELSE PyStr(EntryOf(p).v)

FailedOnUnit ==
    /\ pc = "raised" /\ ret.raised
    /\ ret.val = NoValue
    /\ ret.err = "AssertionError"

\* C7: whenever a unit outside {B, KB, MB, GB, TB} reaches the converter,
\* the conversion fails with an error and returns no value: in a direct
\* convert_mb call, and in parse_memory_resource and parse_memory_limit when
\* the probed unit, which get_lsf_units returns as probed (lower-case "mb"
\* stays "mb"), is not in the set.  No default replaces the unit.
C7_InvalidUnitIsFatal ==
    /\ (op.name = "convert_mb" /\ Ended /\ ~IsValidUnit(op.unit)) => FailedOnUnit
    /\ (IsParser /\ Ended /\ ~IsValidUnit(ResolvedUnit)) => FailedOnUnit

\* A memory parser met the probed unit "mb" and failed.
C7_Witness ==
    /\ IsParser /\ pc = "raised"
    /\ ResolvedUnit = PyStr(<<"mb">>)
    /\ ret.err = "AssertionError"

\* g gigabytes in the unit w, as an int result.
Gigabytes(g, w) ==
    CASE w = "B"  -> <<g * 1024, 0>>
      [] w = "KB" -> <<g, 0>>
      [] w = "MB" -> BigOf(g * 1024)
      [] w = "GB" -> BigOf(g)
      [] w = "TB" -> BigOf(g \div 1024)

\* C8: for every non-negative integer g (gigabytes) and every resolved unit
\* u of {B, KB, MB, GB, TB}, parse_memory_limit(g) and
\* parse_memory_resource(g) return convert_mb(g * 1024, u), that is g
\* gigabytes expressed in u, u being the unit resolved in limit mode and in
\* resource mode; parse_memory_limit(2) is 2097152 for KB, 2048 for MB and 2
\* for GB; the two parsers agree whenever some probe supplies the unit.
C8_ParsersConvertGigabytes ==
    /\ (IsParser /\ Ended /\ IsValidUnit(ResolvedUnit)) =>
           /\ pc = "done"
           /\ ret.val = PyInt(Gigabytes(op.mem, ResolvedUnit.v[1]))
    /\ (op = [name |-> "parse_memory_limit", mem |-> 2] /\ Ended) =>
           /\ ResolvedUnit = PyStr(<<"KB">>) => ret.val = PyInt(<<2, 0>>)
           /\ ResolvedUnit = PyStr(<<"MB">>) => ret.val = PyInt(<<0, 2048>>)
           /\ ResolvedUnit = PyStr(<<"GB">>) => ret.val = PyInt(<<0, 2>>)
    /\ (IsParser /\ Ended /\ ~NoProbeHasValue) =>
           parse_memory_limit(op.mem) = parse_memory_resource(op.mem)

\* parse_memory_limit(2) returned 2097152 with no probe answering (KB).
C8_Witness ==
    /\ op = [name |-> "parse_memory_limit", mem |-> 2] /\ pc = "done"
    /\ NoProbeHasValue
    /\ ret.val = PyInt(<<2, 0>>)

-----------------------------------------------------------------------------
(* C5: the tokenizer *)

EqualsAt(line) == {i \in 1..Len(line) : line[i] = "="}
IsComment(line) == Len(line) >= 1 /\ line[1] = "#"

\* s without the blanks at its two ends.
Trimmed(s) ==
    LET solid == {i \in 1..Len(s) : s[i] \notin {" ", "\n"}}
    IN  IF solid = {} THEN <<>>
        ELSE SubSeq(s, CHOOSE i \in solid : \A j \in solid : i <= j,
                       CHOOSE i \in solid : \A j \in solid : i >= j)

\* The entry of a line cut at its "=" number i.
CutAt(line, i) ==
    <<Trimmed(SubSeq(line, 1, i - 1)), Trimmed(SubSeq(line, i + 1, Len(line)))>>

\* The entries of the lines that satisfy Yields, each cut by Entry, in order.
EntriesOf(lines, Yields(_), Entry(_)) ==
    LET kept == SelectSeq(lines, Yields)
    IN  [i \in 1..Len(kept) |-> Entry(kept[i])]

YieldsOnFirstEquals(line) == ~IsComment(line) /\ EqualsAt(line) # {}
CutOnFirstEquals(line) ==
    CutAt(line, CHOOSE i \in EqualsAt(line) : \A j \in EqualsAt(line) : i <= j)

YieldsOnOnlyEquals(line) == ~IsComment(line) /\ Cardinality(EqualsAt(line)) = 1
CutOnOnlyEquals(line) == CutAt(line, CHOOSE i \in EqualsAt(line) : TRUE)

TokenizeEnded == op.name = "tokenize_conf_stream" /\ pc = "done"

\* C5 as stated: tokenize_conf_stream yields, in line order, one entry for
\* each line that does not begin with "#" and splits on its first "=" into
\* two parts: the text before the first "=" and the text after it, both
\* trimmed.  Every other line yields nothing and raises no error.
C5_SplitsOnFirstEquals ==
    TokenizeEnded =>
        ret.val.v = EntriesOf(op.conf_handle, YieldsOnFirstEquals, CutOnFirstEquals)

\* C5 amended: tokenize_conf_stream yields, in line order, one entry for
\* each line that does not begin with "#" and contains exactly one "=": the
\* text before the "=" and the text after it, both trimmed.  Every other
\* line, a line with two or more "=" included, yields nothing and raises no
\* error.  The lines "# comment", "A=1", "bad line", "B = 2" give exactly
\* [("A","1"), ("B","2")].
C5_SplitsOnOnlyEquals ==
    /\ TokenizeEnded =>
           ret.val.v = EntriesOf(op.conf_handle, YieldsOnOnlyEquals, CutOnOnlyEquals)
    /\ (TokenizeEnded /\ op.conf_handle = << <<"#", " ", "comment", "\n">>,
                                            <<"A", "=", "1", "\n">>,
                                            <<"bad", " ", "line", "\n">>,
                                            <<"B", " ", "=", " ", "2", "\n">> >>) =>
           ret.val.v = << <<<<"A">>, <<"1">>>>, <<<<"B">>, <<"2">>>> >>

\* The four lines of the example were tokenized to two entries.
C5_Witness ==
    /\ TokenizeEnded
    /\ Len(op.conf_handle) = 4
    /\ op.conf_handle[1] = <<"#", " ", "comment", "\n">>
    /\ op.conf_handle[3] = <<"bad", " ", "line", "\n">>
    /\ ret.val.v = << <<<<"A">>, <<"1">>>>, <<<<"B">>, <<"2">>>> >>

-----------------------------------------------------------------------------
(* C10: toilClean.main *)

\* The exception the job store raised, "ok" when it raised none.
OriginalFailure ==
    IF ext.getJobStore # "ok" THEN ext.getJobStore ELSE ext.destroy

FailureLogged ==
    \E i \in 1..Len(log) : log[i][1] = "Failed to delete the job store: "
SuccessLogged ==
    \E i \in 1..Len(log) : log[i][1] = "Successfully deleted the job store: "

\* C10: on any failure, of resolving the job store or of destroying it, the
\* failure message is logged and the original exception is re-raised; the
\* success message is logged only after destroy completed without error.
C10_FailureLoggedAndReraised ==
    /\ (op.name = "main" /\ pc = "raised") =>
           (FailureLogged /\ exc = OriginalFailure)
    /\ (op.name = "main" /\ OriginalFailure # "ok" /\ pc \in {"done", "raised"}) =>
           pc = "raised"
    /\ (op.name = "main" /\ SuccessLogged) =>
           (ext.getJobStore = "ok" /\ ext.destroy = "ok" /\ pc = "done")

====
